---- MODULE Spec2Model ----
(***************************************************************************)
(* A model of skagent's Maliar-Maliar-Winant tools                         *)
(* (src/skagent/algos/maliar.py, src/skagent/ann.py).                      *)
(*                                                                         *)
(* One behaviour is one call of a public function, chosen with its         *)
(* arguments by Init:                                                      *)
(*   "edlr"   estimate_discounted_lifetime_reward                          *)
(*   "loss"   the function built by                                        *)
(*            get_estimated_discounted_lifetime_reward_loss                *)
(*   "sim"    simulate_forward                                             *)
(*   "train"  ann.train_block_policy_nn                                    *)
(*   "loop"   maliar_training_loop                                         *)
(* The call runs one statement group per step and ends in `outcome`:       *)
(* a returned value or the exception that reaches the caller.              *)
(***************************************************************************)
EXTENDS Integers, Sequences, FiniteSets, TLC

VARIABLES
    op,          \* the public function this behaviour calls
    call,        \* the arguments of estimate_discounted_lifetime_reward
    lossArgs,    \* the arguments of the loss constructor and of the loss
    pc,          \* position in the function body
    t,           \* the loop variable of estimate_discounted_lifetime_reward
    states_t,    \* maliar.py:88,134 / the panel of simulate_forward
    shocks_t,    \* maliar.py:115-118
    controls_t,  \* maliar.py:120
    reward_t,    \* maliar.py:121
    total,       \* total_discounted_reward, maliar.py:89,131
    trace,       \* the calls made so far, in order
    loop,        \* the locals of maliar_training_loop / train_block_policy_nn
    outcome      \* how the call ended

vars == <<op, call, lossArgs, pc, t, states_t, shocks_t, controls_t,
          reward_t, total, trace, loop, outcome>>

(***************************************************************************)
(* Bounds of the model.                                                    *)
(***************************************************************************)
\* longest horizon big_t of a direct estimator call
MaxT == 6
\* longest horizon of a call with a shock schedule
MaxShockT == 2
\* significand width of the floating-point arithmetic (53 for a Python
\* float, 24 for a float32 tensor), scaled down
Precision == 3
\* most epochs of one train_block_policy_nn call
MaxEpochs == 2

(***************************************************************************)
(* Numbers.  A value is a Python int, a Python float, a numpy array or a   *)
(* torch tensor; arrays and tensors hold one entry per agent.  An entry    *)
(* is finite, NaN or an infinity.  int arithmetic is exact, the other      *)
(* representations round to Precision significant bits (round to nearest,  *)
(* ties to even).                                                          *)
(***************************************************************************)
Fin(n) == [k |-> "fin", n |-> n]
NaN == [k |-> "nan", n |-> 0]
PosInf == [k |-> "inf", n |-> 1]
NegInf == [k |-> "inf", n |-> -1]

Num(repr, xs) == [repr |-> repr, xs |-> xs]
IntNum(n) == Num("int", <<Fin(n)>>)

RECURSIVE Pow(_, _)
Pow(b, e) == IF e = 0 THEN 1 ELSE b * Pow(b, e - 1)

RECURSIVE BitLen(_)
BitLen(n) == IF n = 0 THEN 0 ELSE 1 + BitLen(n \div 2)

Abs(i) == IF i < 0 THEN -i ELSE i
Sign(i) == IF i < 0 THEN -1 ELSE IF i = 0 THEN 0 ELSE 1

RoundNat(n) ==
    IF BitLen(n) <= Precision THEN n
    ELSE LET u == Pow(2, BitLen(n) - Precision)
             q == n \div u
             r == n % u
             half == u \div 2
         IN  IF r > half \/ (r = half /\ q % 2 = 1) THEN (q + 1) * u ELSE q * u

\* the stored result of an arithmetic operation whose exact value is i
Stored(i, exact) == IF exact THEN i ELSE Sign(i) * RoundNat(Abs(i))

EAdd(x, y, exact) ==
    IF x.k = "nan" \/ y.k = "nan" THEN NaN
    ELSE IF x.k = "inf" /\ y.k = "inf" THEN (IF x.n = y.n THEN x ELSE NaN)
    ELSE IF x.k = "inf" THEN x
    ELSE IF y.k = "inf" THEN y
    ELSE Fin(Stored(x.n + y.n, exact))

EMul(x, y, exact) ==
    IF x.k = "nan" \/ y.k = "nan" THEN NaN
    ELSE IF x.k = "inf" \/ y.k = "inf"
         THEN (IF Sign(x.n) * Sign(y.n) = 0 THEN NaN
               ELSE [k |-> "inf", n |-> Sign(x.n) * Sign(y.n)])
    ELSE Fin(Stored(x.n * y.n, exact))

ENeg(x) == IF x.k = "nan" THEN x ELSE [k |-> x.k, n |-> -x.n]

ReprRank(r) == CASE r = "int" -> 0 [] r = "float" -> 1
                 [] r = "ndarray" -> 2 [] r = "tensor" -> 3

\* the representation of the result of a binary operation
Promote(r1, r2) == IF ReprRank(r1) >= ReprRank(r2) THEN r1 ELSE r2

Max(a, b) == IF a >= b THEN a ELSE b

\* entry i of a value, a scalar broadcast over the agents
At(v, i) == IF Len(v.xs) = 1 THEN v.xs[1] ELSE v.xs[i]

NumAdd(a, b) ==
    LET r == Promote(a.repr, b.repr)
    IN  Num(r, [i \in 1..Max(Len(a.xs), Len(b.xs)) |->
                   EAdd(At(a, i), At(b, i), r = "int")])

NumMul(a, b) ==
    LET r == Promote(a.repr, b.repr)
    IN  Num(r, [i \in 1..Max(Len(a.xs), Len(b.xs)) |->
                   EMul(At(a, i), At(b, i), r = "int")])

NumSub(a, b) == NumAdd(a, Num(b.repr, [i \in 1..Len(b.xs) |-> ENeg(b.xs[i])]))
NumNeg(a) == Num(a.repr, [i \in 1..Len(a.xs) |-> ENeg(a.xs[i])])

\* discount_factor ** t of a numerical discount factor
NumPow(d, e) == Num(d.repr, <<Fin(Stored(Pow(d.xs[1].n, e), d.repr = "int"))>>)

HasNaN(v) == \E i \in 1..Len(v.xs) : v.xs[i].k = "nan"
HasNonFinite(v) == \E i \in 1..Len(v.xs) : v.xs[i].k # "fin"

(***************************************************************************)
(* Named value environments: symbol -> value.  A symbol is the sequence   *)
(* of the characters of its name.                                          *)
(***************************************************************************)
Empty == [x \in {} |-> 0]

\* a | b of two dicts: on a shared key the right operand wins
Merge(a, b) ==
    [x \in DOMAIN a \cup DOMAIN b |-> IF x \in DOMAIN b THEN b[x] ELSE a[x]]

Range(s) == {s[i] : i \in 1..Len(s)}

CSym == <<"c">>
USym == <<"u">>
RSym == <<"r">>

(***************************************************************************)
(* The block (skagent.model.Block), an external collaborator.  The         *)
(* fixtures have one control c, at most one reward u owned by "consumer",  *)
(* and one dynamic state:                                                  *)
(*   dyn  "noop"     state' = state                                        *)
(*        "savings"  state' = state - c + the shocks                       *)
(*   util "const"    u = the parameter r                                   *)
(*        "lin"      u = c                                                 *)
(*        "nanAt0"   u = c, NaN where c = 0                                *)
(*        "infAt0"   u = c, -inf where c = 0                               *)
(***************************************************************************)
Block(dyn, util, state, shocks, owner) ==
    [dyn |-> dyn, util |-> util, state |-> state, shocks |-> shocks,
     owner |-> owner]

\* block.reward: reward symbol -> owning agent
BlockReward(block) ==
    IF block.owner = "none" THEN Empty ELSE [x \in {USym} |-> block.owner]

\* block.get_shocks(): the keys, in declaration order
BlockGetShocks(block) == block.shocks

RECURSIVE SumShocks(_, _, _)
SumShocks(acc, syms, vals) ==
    IF syms = <<>> THEN acc
    ELSE SumShocks(NumAdd(acc, vals[Head(syms)]), Tail(syms), vals)

Utility(block, c, vals) ==
    CASE block.util = "const" -> vals[RSym]
      [] block.util = "lin" -> c
      [] block.util = "nanAt0" ->
            Num(Promote(c.repr, "float"),
                [i \in 1..Len(c.xs) |-> IF c.xs[i] = Fin(0) THEN NaN ELSE c.xs[i]])
      [] block.util = "infAt0" ->
            Num(Promote(c.repr, "float"),
                [i \in 1..Len(c.xs) |-> IF c.xs[i] = Fin(0) THEN NegInf ELSE c.xs[i]])

\* a closed-form decision rule for c, applied to the environment
RuleValue(rule, block, vals) ==
    IF rule = "all" THEN vals[block.state] ELSE IntNum(1)

\* block.transition(vals, decision_rules, fix): the environment after the
\* block's dynamics; a control named in fix keeps the value it has in vals
BlockTransition(block, vals, rule, fix) ==
    LET c == IF CSym \in fix THEN vals[CSym] ELSE RuleValue(rule, block, vals)
        s == IF block.dyn = "noop" THEN vals[block.state]
             ELSE SumShocks(NumSub(vals[block.state], c), block.shocks, vals)
        new == [x \in {CSym, block.state} |-> IF x = CSym THEN c ELSE s]
        rew == [x \in DOMAIN BlockReward(block) |-> Utility(block, c, vals)]
    IN  Merge(Merge(vals, new), rew)

(***************************************************************************)
(* maliar.py:16-65: the functions built from a block.                      *)
(***************************************************************************)
\* create_transition_function(block, state_syms)(states_t, shocks_t,
\* controls_t, parameters)
transition_function(block, state_syms, st, sh, ct, params) ==
    LET valsAll == Merge(Merge(Merge(params, st), sh), ct)
        post == BlockTransition(block, valsAll, "none", DOMAIN ct)
    IN  [sym \in state_syms |-> post[sym]]

\* create_decision_function(block, decision_rules)(states_t, shocks_t,
\* parameters); the decision rules are {c: rule}
decision_function(block, rule, st, sh, params) ==
    LET valsAll == Merge(Merge(params, st), sh)
        post == BlockTransition(block, valsAll, rule, {})
    IN  [sym \in {CSym} |-> post[sym]]

\* a decision function passed in as a callable: the same rule, applied by
\* the callable itself
callable_decision(block, rule, st, sh, params) ==
    [sym \in {CSym} |-> RuleValue(rule, block, Merge(Merge(params, st), sh))]

\* the reward symbols kept by the agent filter
RewardSyms(block, agent) ==
    {sym \in DOMAIN BlockReward(block) :
        agent = "None" \/ BlockReward(block)[sym] = agent}

\* create_reward_function(block, agent)(states_t, shocks_t, controls_t,
\* parameters)
reward_function(block, agent, st, sh, ct, params) ==
    LET valsAll == Merge(Merge(Merge(params, st), sh), ct)
        post == BlockTransition(block, valsAll, "none", DOMAIN ct)
    IN  [sym \in RewardSyms(block, agent) |-> post[sym]]

(***************************************************************************)
(* The state of a call before its first step, and how a call ends.         *)
(***************************************************************************)
\* kind: "none" while running, "return" or "raise" at the end; value: the
\* number returned; approx, theta, panel: the approximator and panel returned
Outcome(kind, exc, value, approx, theta, panel) ==
    [kind |-> kind, exc |-> exc, value |-> value, approx |-> approx,
     theta |-> theta, panel |-> panel]

NoOutcome == Outcome("none", "", IntNum(0), "", 0, Empty)
Returned(v) == Outcome("return", "", v, "", 0, Empty)
ReturnedPanel(p) == Outcome("return", "", IntNum(0), "", 0, p)
ReturnedLoop(approx, theta, p) == Outcome("return", "", IntNum(0), approx, theta, p)
Raised(e) == Outcome("raise", e, IntNum(0), "", 0, Empty)

\* one entry of the trace: the call made, the period, and its arguments
Ev(f, period, st, sh, ct, rew, w) ==
    [f |-> f, t |-> period, states |-> st, shocks |-> sh, controls |-> ct,
     reward |-> rew, weight |-> w]

NoSchedule == [given |-> FALSE, sched |-> Empty]
Schedule(s) == [given |-> TRUE, sched |-> s]

EdlrCall(block, discount_factor, dr, states_0, big_t, shocks_by_t, parameters, agent) ==
    [block |-> block, discount_factor |-> discount_factor, dr |-> dr,
     states_0 |-> states_0, big_t |-> big_t, shocks_by_t |-> shocks_by_t,
     parameters |-> parameters, agent |-> agent]

NoCall ==
    EdlrCall(Block("noop", "lin", <<"a">>, <<>>, "none"),
             [callable |-> FALSE, v |-> IntNum(1)],
             [callable |-> FALSE, rule |-> "all"], Empty, 0, NoSchedule, Empty, "None")

NoLossArgs ==
    [state_variables |-> <<>>, input_vector |-> <<>>, states |-> Empty,
     sched |-> Empty, delta |-> "exact"]
NoLoop ==
    [i |-> 0, epoch |-> 0, epochs |-> 0, theta |-> 0,
     seed |-> [given |-> FALSE, v |-> 0], shock_copies |-> 0,
     lossFn |-> [diverges |-> FALSE, at |-> 0],
     givens |-> [made |-> FALSE, from |-> Empty, copies |-> 0]]

(***************************************************************************)
(* estimate_discounted_lifetime_reward, maliar.py:68-136.                  *)
(***************************************************************************)
\* maliar.py:104-106: list({...})[0]; the fixtures have at most one reward
rsym(c) == CHOOSE sym \in RewardSyms(c.block, c.agent) : TRUE

\* maliar.py:93-98: df is dr itself when dr is callable, else it is built
\* from the decision rules
df(c, st, sh, params) ==
    IF c.dr.callable THEN callable_decision(c.block, c.dr.rule, st, sh, params)
    ELSE decision_function(c.block, c.dr.rule, st, sh, params)

\* maliar.py:115-118
SelectShocks(c, period) ==
    IF c.shocks_by_t.given
    THEN [sym \in DOMAIN c.shocks_by_t.sched |-> c.shocks_by_t.sched[sym][period + 1]]
    ELSE Empty

\* maliar.py:124-129: the two isinstance-guarded NaN tests
RewardCheckRaises(r) ==
    \/ r.repr = "tensor" /\ HasNaN(r)
    \/ r.repr = "ndarray" /\ HasNaN(r)

\* Accumulate with `=` in place of `+=`
AccumulateOverwrite(tot, r, discount, period) == NumMul(r, NumPow(discount, period))

\* Accumulate with the exponent one period ahead
AccumulateNextExponent(tot, r, discount, period) ==
    NumAdd(tot, NumMul(r, NumPow(discount, period + 1)))

\* maliar.py:131
Accumulate(tot, r, discount, period) == NumAdd(tot, NumMul(r, NumPow(discount, period)))

\* the test of maliar.py:108 left out
DiscountUnsupportedNever(discount_factor) == FALSE

\* maliar.py:108: callable(discount_factor)
DiscountUnsupported(discount_factor) == discount_factor.callable

\* maliar.py:88-111
EDLR_Setup ==
    /\ pc = "edlr:setup"
    /\ IF RewardSyms(call.block, call.agent) = {}
       THEN /\ outcome' = Raised("IndexError")
            /\ pc' = "done"
       ELSE IF DiscountUnsupported(call.discount_factor)
       THEN /\ outcome' = Raised("Exception: only numerical discount factors")
            /\ pc' = "done"
       ELSE /\ outcome' = outcome
            /\ pc' = "edlr:for"
    /\ states_t' = call.states_0
    /\ total' = IntNum(0)
    /\ t' = 0
    /\ UNCHANGED <<op, call, lossArgs, shocks_t, controls_t, reward_t, trace, loop>>

\* maliar.py:113-118
EDLR_SelectShocks ==
    /\ pc = "edlr:for"
    /\ t < call.big_t
    /\ shocks_t' = SelectShocks(call, t)
    /\ trace' = Append(trace, Ev("shocks", t, states_t, shocks_t', Empty, IntNum(0), IntNum(0)))
    /\ pc' = "edlr:df"
    /\ UNCHANGED <<op, call, lossArgs, t, states_t, controls_t, reward_t, total, loop, outcome>>

\* maliar.py:120
EDLR_Decide ==
    /\ pc = "edlr:df"
    /\ controls_t' = df(call, states_t, shocks_t, call.parameters)
    /\ trace' = Append(trace, Ev("df", t, states_t, shocks_t, Empty, IntNum(0), IntNum(0)))
    /\ pc' = "edlr:rf"
    /\ UNCHANGED <<op, call, lossArgs, t, states_t, shocks_t, reward_t, total, loop, outcome>>

\* maliar.py:121
EDLR_Reward ==
    /\ pc = "edlr:rf"
    /\ reward_t' = reward_function(call.block, call.agent, states_t, shocks_t,
                                   controls_t, call.parameters)
    /\ trace' = Append(trace, Ev("rf", t, states_t, shocks_t, controls_t, IntNum(0), IntNum(0)))
    /\ pc' = "edlr:check"
    /\ UNCHANGED <<op, call, lossArgs, t, states_t, shocks_t, controls_t, total, loop, outcome>>

\* maliar.py:123-129
EDLR_Check ==
    /\ pc = "edlr:check"
    /\ trace' = Append(trace, Ev("check", t, Empty, Empty, Empty, reward_t[rsym(call)], IntNum(0)))
    /\ IF RewardCheckRaises(reward_t[rsym(call)])
       THEN /\ outcome' = Raised("Exception: reward is NaN")
            /\ pc' = "done"
       ELSE /\ outcome' = outcome
            /\ pc' = "edlr:acc"
    /\ UNCHANGED <<op, call, lossArgs, t, states_t, shocks_t, controls_t, reward_t, total, loop>>

\* maliar.py:131
EDLR_Accumulate ==
    /\ pc = "edlr:acc"
    /\ total' = Accumulate(total, reward_t[rsym(call)], call.discount_factor.v, t)
    /\ trace' = Append(trace, Ev("acc", t, Empty, Empty, Empty, reward_t[rsym(call)],
                                 NumPow(call.discount_factor.v, t)))
    /\ pc' = "edlr:tf"
    /\ UNCHANGED <<op, call, lossArgs, t, states_t, shocks_t, controls_t, reward_t, loop, outcome>>

\* maliar.py:133-134, and the loop's next t
EDLR_Advance ==
    /\ pc = "edlr:tf"
    /\ states_t' = transition_function(call.block, DOMAIN call.states_0, states_t,
                                       shocks_t, controls_t, call.parameters)
    /\ trace' = Append(trace, Ev("tf", t, states_t, shocks_t, controls_t, IntNum(0), IntNum(0)))
    /\ t' = t + 1
    /\ pc' = "edlr:for"
    /\ UNCHANGED <<op, call, lossArgs, shocks_t, controls_t, reward_t, total, loop, outcome>>

\* maliar.py:136; called by the loss, the total goes back to maliar.py:168
EDLR_Return ==
    /\ pc = "edlr:for"
    /\ t = call.big_t
    /\ IF op = "loss"
       THEN /\ pc' = "loss:negate"
            /\ outcome' = outcome
       ELSE /\ pc' = "done"
            /\ outcome' = Returned(total)
    /\ UNCHANGED <<op, call, lossArgs, t, states_t, shocks_t, controls_t, reward_t,
                   total, trace, loop>>

(***************************************************************************)
(* The calls of estimate_discounted_lifetime_reward that Init draws.       *)
(***************************************************************************)
ASym == <<"a">>
ESym == <<"e">>

Discounts ==
    {[callable |-> c, v |-> Num(r, <<Fin(d)>>)] :
        c \in BOOLEAN, r \in {"int", "float"}, d \in {1, 2}}

\* constant rewards: a Python int, a Python float, or one entry per agent
ConstRewardEntries == {Fin(1), Fin(3), NaN, PosInf}
ConstRewards ==
    {Num("int", <<Fin(n)>>) : n \in {1, 3}}
    \cup {Num("float", <<e>>) : e \in ConstRewardEntries}
    \cup {Num(r, <<e1, e2>>) : r \in {"ndarray", "tensor"},
                               e1 \in ConstRewardEntries, e2 \in ConstRewardEntries}

DecisionRules == {[callable |-> c, rule |-> r] : c \in BOOLEAN, r \in {"all", "one"}}

\* a block with no-op dynamics and the constant reward r, or no reward
ConstRewardCalls ==
    {EdlrCall(Block("noop", "const", ASym, <<>>, oa[1]), d,
              [callable |-> cd, rule |-> "all"],
              [x \in {ASym} |-> IntNum(2)], T, NoSchedule,
              [x \in {RSym} |-> r], oa[2]) :
        oa \in {<<"consumer", "None">>, <<"consumer", "firm">>, <<"none", "None">>},
        d \in {x \in Discounts : x.callable => x.v = IntNum(1)},
        cd \in BOOLEAN, T \in 0..MaxT, r \in ConstRewards}

Schedules(T, repr) == [1..T -> {Num(repr, <<Fin(n)>>) : n \in {0, 1}}]

\* the savings block with a shock schedule
SavingsCalls ==
    UNION {{EdlrCall(Block("savings", ur[1], ASym, <<ESym>>, "consumer"),
                     [callable |-> FALSE, v |-> IntNum(d)], dr,
                     [x \in {ASym} |-> Num(ur[2], <<Fin(a)>>)], T,
                     Schedule([x \in {ESym} |-> s]), Empty, "None") :
              dr \in DecisionRules, d \in {1, 2}, a \in {1, 2},
              s \in Schedules(T, ur[2])} :
           ur \in ({<<"lin", "int">>}
                   \cup ({"lin", "nanAt0", "infAt0"} \X {"float", "tensor"})),
           T \in 0..MaxShockT}

InitEdlr ==
    /\ op = "edlr"
    /\ call \in ConstRewardCalls \cup SavingsCalls
    /\ lossArgs = NoLossArgs
    /\ pc = "edlr:setup"
    /\ t = 0
    /\ states_t = Empty
    /\ shocks_t = Empty
    /\ controls_t = Empty
    /\ reward_t = Empty
    /\ total = IntNum(0)
    /\ trace = <<>>
    /\ loop = NoLoop
    /\ outcome = NoOutcome

(***************************************************************************)
(* get_estimated_discounted_lifetime_reward_loss, maliar.py:139-181.       *)
(***************************************************************************)
DecimalDigits == <<"0", "1", "2", "3", "4", "5", "6", "7", "8", "9">>

\* str(n), the characters of n in decimal
RECURSIVE Str(_)
Str(n) == IF n < 10 THEN <<DecimalDigits[n + 1]>>
          ELSE Str(n \div 10) \o <<DecimalDigits[(n % 10) + 1]>>

\* f"{sym}_{t}"
TimeIndexed(sym, period) == sym \o <<"_">> \o Str(period)

\* maliar.py:150-152: for each t in order, the shock symbols in order
RECURSIVE big_t_shock_syms(_, _)
big_t_shock_syms(shock_vars, big_t) ==
    IF big_t = 0 THEN <<>>
    ELSE big_t_shock_syms(shock_vars, big_t - 1)
         \o [i \in 1..Len(shock_vars) |-> TimeIndexed(shock_vars[i], big_t - 1)]

\* maliar.py:155
given_syms(state_variables, shock_vars, big_t) ==
    state_variables \o big_t_shock_syms(shock_vars, big_t)

Min(a, b) == IF a <= b THEN a ELSE b

\* maliar.py:159, dict(zip(given_syms, input_vector)): zip stops at the
\* shorter argument, and of two equal keys the later one stays
given_vals(syms, input_vector) ==
    LET n == Min(Len(syms), Len(input_vector))
    IN  [x \in {syms[i] : i \in 1..n} |->
            input_vector[CHOOSE i \in 1..n :
                /\ syms[i] = x
                /\ \A j \in 1..n : syms[j] = x => j <= i]]

\* maliar.py:161-165: torch.stack of the big_t values of each shock symbol
shocks_by_t(gv, shock_vars, big_t) ==
    [sym \in Range(shock_vars) |->
        [period \in 1..big_t |-> gv[TimeIndexed(sym, period - 1)]]]

\* maliar.py:157-178: the loss decodes its input and calls the estimator
Loss_Call ==
    /\ pc = "loss:call"
    /\ LET shock_vars == BlockGetShocks(call.block)
           gv == given_vals(given_syms(lossArgs.state_variables, shock_vars, call.big_t),
                            lossArgs.input_vector)
       IN  IF \E i \in 1..Len(big_t_shock_syms(shock_vars, call.big_t)) :
                 big_t_shock_syms(shock_vars, call.big_t)[i] \notin DOMAIN gv
           THEN /\ outcome' = Raised("KeyError")
                /\ pc' = "done"
                /\ call' = call
           ELSE IF call.big_t = 0 /\ shock_vars # <<>>
           THEN /\ outcome' = Raised("RuntimeError: stack expects a non-empty TensorList")
                /\ pc' = "done"
                /\ call' = call
           ELSE IF \E i \in 1..Len(lossArgs.state_variables) :
                      lossArgs.state_variables[i] \notin DOMAIN gv
           THEN /\ outcome' = Raised("KeyError")
                /\ pc' = "done"
                /\ call' = call
           ELSE /\ outcome' = outcome
                /\ pc' = "edlr:setup"
                /\ call' = [call EXCEPT
                      !.states_0 = [sym \in Range(lossArgs.state_variables) |-> gv[sym]],
                      !.shocks_by_t = Schedule(shocks_by_t(gv, shock_vars, call.big_t))]
    /\ UNCHANGED <<op, lossArgs, t, states_t, shocks_t, controls_t, reward_t, total,
                   trace, loop>>

\* maliar.py:179
Loss_Negate ==
    /\ pc = "loss:negate"
    /\ outcome' = Returned(NumNeg(total))
    /\ pc' = "done"
    /\ UNCHANGED <<op, call, lossArgs, t, states_t, shocks_t, controls_t, reward_t,
                   total, trace, loop>>

(***************************************************************************)
(* The calls of the loss that Init draws: named initial states and a       *)
(* shock schedule, flattened in the order of given_syms, and the same      *)
(* batch one value short or one value long.                                *)
(***************************************************************************)
PSym == <<"p">>
\* a state variable named e_0
E0Sym == <<"e", "_", "0">>

TensorValues == {Num("tensor", <<Fin(n)>>) : n \in {0, 1}}

\* the flat batch of named values: the state values in the order of
\* state_variables, then for each period the shock values in symbol order
Flatten(state_variables, shock_vars, big_t, states, sched) ==
    [i \in 1..(Len(state_variables) + big_t * Len(shock_vars)) |->
        IF i <= Len(state_variables) THEN states[state_variables[i]]
        ELSE LET j == i - Len(state_variables) - 1
             IN  sched[shock_vars[(j % Len(shock_vars)) + 1]][(j \div Len(shock_vars)) + 1]]

Resized(vec, delta) ==
    CASE delta = "exact" -> vec
      [] delta = "short" -> SubSeq(vec, 1, Len(vec) - 1)
      [] delta = "long" -> Append(vec, Num("tensor", <<Fin(1)>>))

LossCalls ==
    UNION {{[call |-> EdlrCall(Block("savings", util, Head(sv), sh, "consumer"),
                               [callable |-> FALSE, v |-> IntNum(2)],
                               [callable |-> TRUE, rule |-> "all"],
                               Empty, T, NoSchedule, Empty, "None"),
             args |-> [state_variables |-> sv,
                       input_vector |-> Resized(Flatten(sv, sh, T, st, sc), delta),
                       states |-> st, sched |-> sc, delta |-> delta]] :
              util \in {"lin", "nanAt0"},
              st \in [Range(sv) -> TensorValues],
              sc \in [Range(sh) -> [1..T -> TensorValues]],
              delta \in {d \in {"exact", "short", "long"} :
                            d = "short" => Len(sv) + T * Len(sh) > 0}} :
           sv \in {<<ASym>>, <<E0Sym>>, <<ASym, E0Sym>>},
           sh \in {<<>>, <<ESym>>, <<ESym, PSym>>},
           T \in 0..MaxShockT}

InitLoss ==
    /\ op = "loss"
    /\ \E lc \in LossCalls :
          /\ call = lc.call
          /\ lossArgs = lc.args
    /\ pc = "loss:call"
    /\ t = 0
    /\ states_t = Empty
    /\ shocks_t = Empty
    /\ controls_t = Empty
    /\ reward_t = Empty
    /\ total = IntNum(0)
    /\ trace = <<>>
    /\ loop = NoLoop
    /\ outcome = NoOutcome

(***************************************************************************)
(* simulate_forward, maliar.py:218-237.                                    *)
(***************************************************************************)
\* maliar.py:228-234: one pass of the loop body.  draw_shocks is the
\* external sampler; the decision function's result is not kept; the
\* transition function, which takes four arguments, is called with the one
\* argument `...`
Sim_Period ==
    /\ pc = "sim:for"
    /\ t < call.big_t
    /\ \E drawn \in [Range(call.block.shocks) -> TensorValues] :
          /\ shocks_t' = drawn
          /\ trace' = trace \o
                <<Ev("draw_shocks", t, Empty, drawn, Empty, IntNum(0), IntNum(0)),
                  Ev("df", t, states_t, drawn, Empty, IntNum(0), IntNum(0)),
                  Ev("tf", t, Empty, Empty, Empty, IntNum(0), IntNum(0))>>
    /\ outcome' = Raised("TypeError: transition_function() missing 3 required positional arguments")
    /\ pc' = "done"
    /\ UNCHANGED <<op, call, lossArgs, t, states_t, controls_t, reward_t, total, loop>>

\* maliar.py:237: states_t_plus_1 is bound only by a completed pass
Sim_Return ==
    /\ pc = "sim:for"
    /\ t = call.big_t
    /\ outcome' = IF t = 0 THEN Raised("UnboundLocalError: states_t_plus_1")
                  ELSE ReturnedPanel(states_t)
    /\ pc' = "done"
    /\ UNCHANGED <<op, call, lossArgs, t, states_t, shocks_t, controls_t, reward_t,
                   total, trace, loop>>

Panels == {[x \in {ASym} |-> Num(r, <<Fin(a)>>)] : r \in {"float", "tensor"}, a \in {1, 2}}

SimCalls ==
    {EdlrCall(Block(du[1], du[2], ASym, sh, "consumer"),
              [callable |-> FALSE, v |-> IntNum(1)], dr, st, T, NoSchedule,
              [x \in {RSym} |-> IntNum(1)], "None") :
        du \in {<<"noop", "const">>, <<"noop", "lin">>, <<"savings", "lin">>},
        sh \in {<<>>, <<ESym>>},
        dr \in {d \in DecisionRules : d.callable},
        st \in Panels, T \in 0..MaxShockT}

InitSim ==
    /\ op = "sim"
    /\ call \in SimCalls
    /\ lossArgs = NoLossArgs
    /\ pc = "sim:for"
    /\ t = 0
    /\ states_t = call.states_0
    /\ shocks_t = Empty
    /\ controls_t = Empty
    /\ reward_t = Empty
    /\ total = IntNum(0)
    /\ trace = <<>>
    /\ loop = NoLoop
    /\ outcome = NoOutcome

(***************************************************************************)
(* ann.train_block_policy_nn, ann.py:119-139.  The approximator's          *)
(* parameters are the number theta of optimizer steps taken; the loss is   *)
(* a callable that may raise when evaluated at some theta.                 *)
(***************************************************************************)
LossRaises(lossFn, theta) == lossFn.diverges /\ lossFn.at = theta

\* Propagate with a handler that drops the exception and goes on
Swallow(exc) == [pc |-> "continue", outcome |-> NoOutcome]

\* an exception raised inside a training call meets no handler
\* (ann.py:126-134, maliar.py:279-292): the call ends and the exception
\* reaches the caller
Propagate(exc) == [pc |-> "done", outcome |-> Raised(exc)]

\* ann.py:126-134: zero_grad, the loss, backward, optimizer step
Train_Epoch ==
    /\ pc = "train:for"
    /\ loop.epoch < loop.epochs
    /\ trace' = Append(trace, Ev("loss_function", loop.epoch, Empty, Empty, Empty,
                                 IntNum(0), IntNum(0)))
    /\ IF LossRaises(loop.lossFn, loop.theta)
       THEN LET p == Propagate("Exception: reward is NaN")
            IN  /\ pc' = IF p.pc = "done" THEN "done" ELSE pc
                /\ outcome' = p.outcome
                /\ loop' = IF p.pc = "done" THEN loop ELSE [loop EXCEPT !.epoch = @ + 1]
       ELSE /\ pc' = pc
            /\ outcome' = outcome
            /\ loop' = [loop EXCEPT !.theta = @ + 1, !.epoch = @ + 1]
    /\ UNCHANGED <<op, call, lossArgs, t, states_t, shocks_t, controls_t, reward_t, total>>

\* ann.py:139
Train_Return ==
    /\ pc = "train:for"
    /\ loop.epoch = loop.epochs
    /\ outcome' = ReturnedLoop("block_policy_nn", loop.theta, Empty)
    /\ pc' = "done"
    /\ UNCHANGED <<op, call, lossArgs, t, states_t, shocks_t, controls_t, reward_t,
                   total, trace, loop>>

LossFns ==
    {[diverges |-> FALSE, at |-> 0]} \cup {[diverges |-> TRUE, at |-> n] : n \in 0..MaxEpochs}

InitTrain ==
    /\ op = "train"
    /\ call = NoCall
    /\ lossArgs = NoLossArgs
    /\ pc = "train:for"
    /\ t = 0
    /\ states_t = Empty
    /\ shocks_t = Empty
    /\ controls_t = Empty
    /\ reward_t = Empty
    /\ total = IntNum(0)
    /\ trace = <<>>
    /\ \E e \in 0..MaxEpochs, th \in 0..1, lf \in LossFns :
          loop = [NoLoop EXCEPT !.epochs = e, !.theta = th, !.lossFn = lf]
    /\ outcome = NoOutcome

(***************************************************************************)
(* maliar_training_loop, maliar.py:240-298.                                *)
(***************************************************************************)
\* maliar.py:279, range(100)
Iterations == 100
\* maliar.py:286, epochs=250
LoopEpochs == 250

\* maliar.py:201-215: raises on every call, before anything else
generate_givens_from_states(states, block, shock_copies) ==
    [raises |-> TRUE, exc |-> "Exception: generate_givens_from_states not implemented",
     givens |-> [made |-> FALSE, from |-> Empty, copies |-> 0]]

\* ann.py:119-139 as one call: the parameters after `epochs` epochs, or the
\* exception of the first epoch whose loss raises
RECURSIVE TrainResult(_, _, _)
TrainResult(theta, lossFn, epochs) ==
    IF epochs = 0 THEN [raises |-> FALSE, exc |-> "", theta |-> theta]
    ELSE IF LossRaises(lossFn, theta)
    THEN [raises |-> TRUE, exc |-> "Exception: reward is NaN", theta |-> theta]
    ELSE TrainResult(theta + 1, lossFn, epochs - 1)

\* maliar.py:290-292: simulate_forward, which takes six arguments, is
\* called with four
SimulateForwardCall4 ==
    [raises |-> TRUE,
     exc |-> "TypeError: simulate_forward() missing 2 required positional arguments"]

\* maliar.py:271-276
Loop_Initialize ==
    /\ pc = "loop:init"
    /\ trace' = <<Ev("Initializing", 0, call.states_0, Empty, Empty, IntNum(0), IntNum(0))>>
    /\ states_t' = call.states_0
    /\ loop' = [loop EXCEPT !.i = 0, !.theta = 0]
    /\ pc' = "loop:for"
    /\ UNCHANGED <<op, call, lossArgs, t, shocks_t, controls_t, reward_t, total, outcome>>

Phase(name, i, panel) == Ev(name, i, panel, Empty, Empty, IntNum(0), IntNum(0))

\* maliar.py:280-292: one pass of the loop body.  The givens are asked for
\* the initial panel states_0_n; the first call that raises ends the pass
LoopBody(l, c, panel) ==
    LET g == generate_givens_from_states(c.states_0, c.block, l.shock_copies)
        tr == TrainResult(l.theta, l.lossFn, LoopEpochs)
        sf == SimulateForwardCall4
        sim == Phase("SimulateBatch", l.i, c.states_0)
        opt == Phase("Optimize", l.i, Empty)
        adv == Phase("AdvancePanel", l.i, panel)
    IN  IF g.raises
        THEN [raises |-> TRUE, exc |-> g.exc, phases |-> <<sim>>,
              givens |-> l.givens, theta |-> l.theta]
        ELSE IF tr.raises
        THEN [raises |-> TRUE, exc |-> tr.exc, phases |-> <<sim, opt>>,
              givens |-> g.givens, theta |-> tr.theta]
        ELSE [raises |-> sf.raises, exc |-> sf.exc, phases |-> <<sim, opt, adv>>,
              givens |-> g.givens, theta |-> tr.theta]

\* maliar.py:279-298: one pass of the loop, or the return after the last
Loop_Step ==
    /\ pc = "loop:for"
    /\ IF loop.i < Iterations
       THEN LET b == LoopBody(loop, call, states_t)
                p == IF b.raises THEN Propagate(b.exc)
                     ELSE [pc |-> pc, outcome |-> outcome]
            IN  /\ trace' = trace \o b.phases
                /\ pc' = IF p.pc = "done" THEN "done" ELSE pc
                /\ outcome' = p.outcome
                /\ loop' = [loop EXCEPT !.givens = b.givens, !.theta = b.theta,
                                        !.i = IF p.pc = "done" THEN @ ELSE @ + 1]
       ELSE /\ trace' = Append(trace, Phase("Terminated", loop.i, states_t))
            /\ loop' = loop
            /\ pc' = "done"
            /\ outcome' = ReturnedLoop("ann", loop.theta, states_t)
    /\ UNCHANGED <<op, call, lossArgs, t, states_t, shocks_t, controls_t, reward_t, total>>

LoopCalls ==
    {EdlrCall(Block("savings", util, ASym, <<ESym>>, "consumer"),
              [callable |-> FALSE, v |-> IntNum(1)],
              [callable |-> TRUE, rule |-> "all"], st, 0, NoSchedule, Empty, "None") :
        util \in {"lin", "nanAt0"}, st \in Panels}

Seeds == {[given |-> FALSE, v |-> 0]} \cup {[given |-> TRUE, v |-> n] : n \in {0, 1}}

InitLoop ==
    /\ op = "loop"
    /\ call \in LoopCalls
    /\ lossArgs = NoLossArgs
    /\ pc = "loop:init"
    /\ t = 0
    /\ states_t = Empty
    /\ shocks_t = Empty
    /\ controls_t = Empty
    /\ reward_t = Empty
    /\ total = IntNum(0)
    /\ trace = <<>>
    /\ \E sc \in 1..3, sd \in Seeds, lf \in LossFns :
          loop = [NoLoop EXCEPT !.shock_copies = sc, !.seed = sd, !.lossFn = lf]
    /\ outcome = NoOutcome

Init == InitEdlr \/ InitLoss \/ InitSim \/ InitTrain \/ InitLoop

Next ==
    \/ EDLR_Setup
    \/ EDLR_SelectShocks
    \/ EDLR_Decide
    \/ EDLR_Reward
    \/ EDLR_Check
    \/ EDLR_Accumulate
    \/ EDLR_Advance
    \/ EDLR_Return
    \/ Loss_Call
    \/ Loss_Negate
    \/ Sim_Period
    \/ Sim_Return
    \/ Train_Epoch
    \/ Train_Return
    \/ Loop_Initialize
    \/ Loop_Step

Spec == Init /\ [][Next]_vars

(***************************************************************************)
(* What the estimator computes, stated apart from its loop: the states,    *)
(* the reward and the total of the first k periods of a call.              *)
(***************************************************************************)
RECURSIVE RefStates(_, _)
RefStates(c, k) ==
    IF k = 0 THEN c.states_0
    ELSE LET st == RefStates(c, k - 1)
             sh == SelectShocks(c, k - 1)
         IN  transition_function(c.block, DOMAIN c.states_0, st, sh,
                                 df(c, st, sh, c.parameters), c.parameters)

\* the reward of period k, from the states before the transition of period k
RefReward(c, k) ==
    LET st == RefStates(c, k)
        sh == SelectShocks(c, k)
    IN  reward_function(c.block, c.agent, st, sh, df(c, st, sh, c.parameters),
                        c.parameters)[rsym(c)]

RECURSIVE RefTotal(_, _)
RefTotal(c, k) ==
    IF k = 0 THEN IntNum(0)
    ELSE NumAdd(RefTotal(c, k - 1),
                NumMul(RefReward(c, k - 1), NumPow(c.discount_factor.v, k - 1)))

\* numerical equality (Python ==), a scalar broadcast over the agents
NumEq(a, b) ==
    \A i \in 1..Max(Len(a.xs), Len(b.xs)) : At(a, i).k # "nan" /\ At(a, i) = At(b, i)

Phases == [i \in 1..Len(trace) |-> trace[i].f]
PeriodSteps == <<"shocks", "df", "rf", "check", "acc", "tf">>

UnsupportedDiscount == Raised("Exception: only numerical discount factors")
Divergence == Raised("Exception: reward is NaN")

(***************************************************************************)
(* C1.  A period's reward that contains a non-finite entry (NaN or an      *)
(* infinity; a scalar, an array or a tensor) makes the estimator fail      *)
(* with the divergence error at that period's check, so that no total is   *)
(* returned.                                                               *)
(***************************************************************************)
C1_NonFiniteRewardFails ==
    op \in {"edlr", "loss"} =>
        \A i \in 1..Len(trace) :
            (trace[i].f = "check" /\ HasNonFinite(trace[i].reward))
                => (i = Len(trace) /\ pc = "done" /\ outcome = Divergence)

\* what the code does test: NaN in a tensor or an array
NaNInTensorOrArrayFails ==
    op \in {"edlr", "loss"} =>
        \A i \in 1..Len(trace) :
            (/\ trace[i].f = "check"
             /\ trace[i].reward.repr \in {"tensor", "ndarray"}
             /\ HasNaN(trace[i].reward))
                => (i = Len(trace) /\ pc = "done" /\ outcome = Divergence)

ConstantRewardCall ==
    /\ op = "edlr"
    /\ call.block.util = "const"
    /\ ~HasNonFinite(call.parameters[RSym])
    /\ call.discount_factor.v.xs = <<Fin(1)>>
    /\ outcome.kind = "return"

\* stated for a reward that is a float, an array or a tensor
C3_ConstantRewardTimesHorizon ==
    (ConstantRewardCall /\ call.parameters[RSym].repr # "int")
        => NumEq(outcome.value, NumMul(call.parameters[RSym], IntNum(call.big_t)))

\* every partial sum k * r, k <= T, is stored exactly by the arithmetic
\* of the call
ExactSums(c) ==
    \/ Promote(c.parameters[RSym].repr, c.discount_factor.v.repr) = "int"
    \/ \A k \in 1..c.big_t : \A i \in 1..Len(c.parameters[RSym].xs) :
          RoundNat(k * c.parameters[RSym].xs[i].n) = k * c.parameters[RSym].xs[i].n

\* C3 as amended: the result is r * T exactly when every partial sum
\* r, 2r, ..., T r is exactly representable in the arithmetic of the call
\* (always so for an int reward and an int discount factor), and 0 for T = 0.
C3_ConstantRewardExactSums ==
    (ConstantRewardCall /\ ExactSums(call))
        => /\ NumEq(outcome.value, NumMul(call.parameters[RSym], IntNum(call.big_t)))
           /\ call.big_t = 0 => outcome.value = IntNum(0)

C3_Witness ==
    /\ ConstantRewardCall
    /\ ExactSums(call)
    /\ call.big_t >= 3
    /\ call.parameters[RSym].repr = "tensor"
    /\ outcome.value = Num("tensor", <<Fin(call.big_t), Fin(call.big_t)>>)

(***************************************************************************)
(* C4.  Flattening named initial states and a shock schedule of big_t      *)
(* values per shock symbol in the order of given_syms and calling the      *)
(* loss on the flat batch recovers the named values: each state symbol     *)
(* gets its own value, each shock symbol's period-t entry is the value     *)
(* supplied for it at t, and the loss is the negated estimate on those     *)
(* values; for any number of shock symbols and any big_t >= 1.             *)
(***************************************************************************)
OriginalCall ==
    [call EXCEPT !.states_0 = lossArgs.states,
                 !.shocks_by_t = Schedule(lossArgs.sched)]

C4_LossRoundTrip ==
    (op = "loss" /\ lossArgs.delta = "exact" /\ call.big_t >= 1 /\ pc # "loss:call")
        => /\ call.states_0 = lossArgs.states
           /\ call.shocks_by_t = Schedule(lossArgs.sched)
           /\ outcome.kind = "return"
                => outcome.value = NumNeg(RefTotal(OriginalCall, call.big_t))

\* no state variable is named like a time-indexed shock, and none twice
DistinctGivenSyms ==
    LET syms == given_syms(lossArgs.state_variables, BlockGetShocks(call.block), call.big_t)
    IN  \A i, j \in 1..Len(syms) : syms[i] = syms[j] => i = j

\* the round trip where the names do not collide
RoundTripOfDistinctNames ==
    (/\ op = "loss"
     /\ lossArgs.delta = "exact"
     /\ call.big_t >= 1
     /\ pc # "loss:call"
     /\ DistinctGivenSyms)
        => /\ call.states_0 = lossArgs.states
           /\ call.shocks_by_t = Schedule(lossArgs.sched)
           /\ outcome.kind = "return"
                => outcome.value = NumNeg(RefTotal(OriginalCall, call.big_t))

(***************************************************************************)
(* C5.  The loss fails with a fatal error whenever the length of the       *)
(* input batch differs from len(state_variables) + big_t * (number of      *)
(* shock symbols), too short or too long, and returns no loss.  Stated     *)
(* for symbol lists without a repeated name.                               *)
(***************************************************************************)
C5_LengthMismatchRejected ==
    (/\ op = "loss"
     /\ DistinctGivenSyms
     /\ Len(lossArgs.input_vector)
          # Len(lossArgs.state_variables) + call.big_t * Len(BlockGetShocks(call.block)))
        => /\ outcome.kind # "return"
           /\ pc = "done" => outcome.kind = "raise"

\* the part the code does reject: a batch that is too short
ShortBatchRejected ==
    (op = "loss" /\ DistinctGivenSyms /\ lossArgs.delta = "short" /\ pc # "loss:call")
        => (pc = "done" /\ outcome.kind = "raise" /\ trace = <<>>
            /\ outcome.exc \in {"KeyError", "RuntimeError: stack expects a non-empty TensorList"})

(***************************************************************************)
(* C6.  maliar_training_loop runs Initializing, then SimulateBatch,        *)
(* Optimize, AdvancePanel in that order once per iteration for its         *)
(* iteration budget, then is Terminated and returns the BlockPolicyNet it  *)
(* built and trained together with the panel of the last AdvancePanel.     *)
(***************************************************************************)
C6_LoopRunsToTermination ==
    (op = "loop" /\ pc = "done")
        => /\ outcome.kind = "return"
           /\ outcome.approx = "BlockPolicyNet"
           /\ outcome.panel = states_t
           /\ Len(trace) = 3 * Iterations + 2
           /\ \A i \in 2..(Len(trace) - 1) :
                 /\ trace[i].f = <<"SimulateBatch", "Optimize", "AdvancePanel">>[((i - 2) % 3) + 1]
                 /\ trace[i].t = (i - 2) \div 3

(***************************************************************************)
(* C7.  In every iteration the givens batch of SimulateBatch is generated  *)
(* from the current panel (the initial panel in iteration 0, afterwards    *)
(* the panel of the previous AdvancePanel) with the requested number of    *)
(* shock copies.                                                           *)
(***************************************************************************)
C7_GivensFromCurrentPanel ==
    (op = "loop" /\ \E i \in 1..Len(trace) : trace[i].f = "SimulateBatch")
        => /\ loop.givens.made
           /\ loop.givens.from = states_t
           /\ loop.givens.copies = loop.shock_copies

(***************************************************************************)
(* C8.  For a block whose transition leaves the states as they are,        *)
(* simulate_forward with big_t = T returns the states it was given, for    *)
(* every T >= 0.                                                           *)
(***************************************************************************)
C8_NoopSimulateForwardReturnsStates ==
    (op = "sim" /\ call.block.dyn = "noop" /\ pc = "done")
        => (outcome.kind = "return" /\ outcome.panel = call.states_0)

\* the transition function itself, applied period after period by the
\* estimator, does leave the states of a no-op block as they are
NoopTransitionKeepsStates ==
    (op = "edlr" /\ call.block.dyn = "noop" /\ pc # "edlr:setup")
        => states_t = call.states_0

(***************************************************************************)
(* C9.  maliar_training_loop recovers from no error and retries nothing:   *)
(* givens generation raises on every call before any computation, and the  *)
(* run ends there, in its first SimulateBatch, with that exception         *)
(* reaching the caller; a loss that raises the divergence error ends the   *)
(* training call at that epoch.  After an exception no later step, epoch   *)
(* or iteration runs and no (approximator, panel) is returned.             *)
(***************************************************************************)
C9_ErrorsPropagate ==
    /\ (op = "loop" /\ \E i \in 1..Len(trace) : trace[i].f = "SimulateBatch")
          => /\ pc = "done"
             /\ outcome = Raised("Exception: generate_givens_from_states not implemented")
             /\ Phases = <<"Initializing", "SimulateBatch">>
             /\ loop.i = 0
             /\ loop.theta = 0
             /\ ~loop.givens.made
    /\ (/\ op = "train"
        /\ trace # <<>>
        /\ LossRaises(loop.lossFn, loop.theta - loop.epoch + Len(trace) - 1))
          => /\ pc = "done"
             /\ outcome = Divergence
             /\ loop.epoch = Len(trace) - 1
    /\ outcome.kind = "raise"
          => /\ pc = "done"
             /\ ~ENABLED Next
             /\ outcome.approx = ""
             /\ outcome.panel = Empty

C9_Witness ==
    /\ op = "loop"
    /\ pc = "done"
    /\ outcome = Raised("Exception: generate_givens_from_states not implemented")
    /\ Phases = <<"Initializing", "SimulateBatch">>

\* a training call ended by a loss that raises after a good epoch
TrainDivergenceReached ==
    /\ op = "train"
    /\ outcome = Divergence
    /\ loop.epoch = 1

(***************************************************************************)
(* C10.  Every period t = 0..big_t-1 of the estimator runs, in this        *)
(* order: select the period's shocks (none without a schedule), compute    *)
(* the controls, compute the reward, check it, accumulate, advance the     *)
(* states.  So the reward of period t comes from the states before the     *)
(* period's transition (states_0 in period 0), is weighted by              *)
(* discount_factor^t with t from 0, the transition gets the shocks and     *)
(* controls that gave the reward, and the states after the last            *)
(* transition add nothing to the total.                                    *)
(***************************************************************************)
C10_PeriodOrder ==
    (op \in {"edlr", "loss"} /\ pc \notin {"loss:call", "edlr:setup"})
        => /\ \A i \in 1..Len(trace) :
                 /\ trace[i].f = PeriodSteps[((i - 1) % 6) + 1]
                 /\ trace[i].t = (i - 1) \div 6
                 /\ trace[i].t < call.big_t
                 /\ trace[i].f \in {"shocks", "df", "rf", "tf"}
                       => /\ trace[i].states = RefStates(call, trace[i].t)
                          /\ trace[i].shocks = SelectShocks(call, trace[i].t)
                 /\ (trace[i].f = "shocks" /\ ~call.shocks_by_t.given)
                       => trace[i].shocks = Empty
                 /\ trace[i].f \in {"rf", "tf"}
                       => trace[i].controls
                            = df(call, trace[i].states, trace[i].shocks, call.parameters)
                 /\ trace[i].f = "tf"
                       => /\ trace[i].states = trace[i - 3].states
                          /\ trace[i].shocks = trace[i - 3].shocks
                          /\ trace[i].controls = trace[i - 3].controls
                 /\ trace[i].f \in {"check", "acc"}
                       => trace[i].reward = RefReward(call, trace[i].t)
                 /\ trace[i].f = "acc"
                       => trace[i].weight = NumPow(call.discount_factor.v, trace[i].t)
           /\ pc = "edlr:for" => /\ Len(trace) = 6 * t
                                 /\ states_t = RefStates(call, t)
                                 /\ total = RefTotal(call, t)
           /\ pc = "edlr:tf" => total = RefTotal(call, t + 1)
           /\ outcome.kind = "return"
                 => /\ Len(trace) = 6 * call.big_t
                    /\ total = RefTotal(call, call.big_t)
                    /\ op = "edlr" => outcome.value = total

C10_Witness ==
    /\ op = "edlr"
    /\ outcome.kind = "return"
    /\ call.block.dyn = "savings"
    /\ call.dr.rule = "all"
    /\ call.big_t = 2
    /\ call.discount_factor.v = IntNum(2)
    /\ RefReward(call, 0) # RefReward(call, 1)
    /\ RefStates(call, 2) # RefStates(call, 1)
    /\ outcome.value = NumAdd(RefReward(call, 0), NumMul(RefReward(call, 1), IntNum(2)))

====
